---- MODULE Spec2Model ----
(***************************************************************************)
(* Retrieval-and-grounding pipeline of the verkiezingen chatbot.           *)
(*                                                                         *)
(*   Part I   the persisted (faiss.index, chunks.pkl) pair: full build     *)
(*            (app/indexer.py run), incremental update (update.py          *)
(*            index_new_passages) and the lazy load of QAEngine._load.     *)
(*   Part II  answer generation and citation extraction (app/qa.py ask,    *)
(*            ask_detailed, _parse_used_passages, _get_sources_by_indices).*)
(*   Part III hybrid search with re-ranking (app/qa.py search).            *)
(*   Part IV  the helper functions _keyword_search, _extract_keywords,     *)
(*            build_context (app/qa.py) and split_into_chunks              *)
(*            (app/indexer.py), each called on its own.                    *)
(*   Part V   the sessions of the web application as threads that share   *)
(*            one QAEngine (app/streamlit_app.py load_engine, app/qa.py    *)
(*            _load).                                                      *)
(*   Part VI  clean_text of the parser (scraper/parser.py).                *)
(*   Part VII ask together with build_context: sources and context.        *)
(*   Part VIII the ingestion scripts parser.run and update.run with their  *)
(*            files (scraper/parser.py run, update.py run).                *)
(***************************************************************************)
EXTENDS Integers, Sequences, FiniteSets, TLC

VARIABLES
    faissFile,   \* index/faiss.index: NoFile or the sequence of stored vectors
    chunksFile,  \* index/chunks.pkl: NoFile or the pickled chunk sequence
    wpc,         \* position of the writing script (indexer.run / index_new_passages)
    wop,         \* the script that runs or ran last: "none", "build", "update"
    wl,          \* the writing script's locals
    eng,         \* QAEngine fields _index and _chunks
    rpc,         \* position of the serving process inside search / _load
    ask,         \* one ask / ask_detailed call: its inputs and its result
    srch,        \* one search call: its inputs and its result
    fn,          \* one call of a helper function: its inputs and its result
    thr,         \* the threads that share one QAEngine: their positions in _load
    ing          \* the ingestion scripts: the site, their files, position and locals

vars == <<faissFile, chunksFile, wpc, wop, wl, eng, rpc, ask, srch, fn, thr, ing>>

ixvars == <<faissFile, chunksFile, wpc, wop, wl, eng, rpc>>

----------------------------------------------------------------------------
(* Bounds of the model *)

MaxText == 2        \* distinct chunk texts
MaxPieces == 2      \* chunks one passage splits into
MaxBatch == 1       \* passages handed to one build or update
MaxChunks == 2      \* chunks the persisted index may hold

----------------------------------------------------------------------------
(* Generic helpers *)

SeqsUpTo(S, n) == UNION {[1..k -> S] : k \in 0..n}

RECURSIVE Flatten(_)
Flatten(ss) == IF ss = <<>> THEN <<>> ELSE Head(ss) \o Flatten(Tail(ss))

IsPrefix(s, t) == Len(s) <= Len(t) /\ SubSeq(t, 1, Len(s)) = s

----------------------------------------------------------------------------
(*                 Part I: the persisted index and its readers             *)

\* A file of the index directory: absent, or present with its content.
NoFile == [exists |-> FALSE, data |-> <<>>]
File(data) == [exists |-> TRUE, data |-> data]

\* An engine field: None, or set to a loaded object.
None == [set |-> FALSE, data |-> <<>>]
Loaded(data) == [set |-> TRUE, data |-> data]

Texts == 1..MaxText

\* A passage of passages.json, as the indexer sees it: `pieces` is the list
\* split_into_chunks returns for heading + text.
Passage == [pieces : SeqsUpTo(Texts, MaxPieces)]

PassageLists == SeqsUpTo(Passage, MaxBatch)

\* One passage's chunk records.
PassageChunks(p) ==
    [i \in 1..Len(p.pieces) |-> [text |-> p.pieces[i], chunk_index |-> i - 1]]

\* All chunk records of a passage list, in passage order.
MakeChunks(passages) ==
    Flatten([k \in 1..Len(passages) |-> PassageChunks(passages[k])])

\* model.encode(texts, normalize_embeddings=True): one vector per text, a
\* function of the text alone.
Embed(text) == [vec_of |-> text]

Encode(chunks) == [i \in 1..Len(chunks) |-> Embed(chunks[i].text)]

\* index.add(new_embeddings) on a loaded index.
IndexAdd(index, vectors) == index \o vectors

\* A plausible slip: the existing chunks are dropped from the list written back.
ExtendChunks_Dropped(existing_chunks, new_chunks) == new_chunks

\* all_chunks = existing_chunks + new_chunks
ExtendChunks(existing_chunks, new_chunks) == existing_chunks \o new_chunks

\* FAISS_INDEX_FILE.exists() and CHUNKS_FILE.exists()
BothExist(ff, cf) == ff.exists /\ cf.exists

NoLocals == [chunks |-> <<>>, index |-> <<>>]

InitIndex ==
    /\ faissFile = NoFile
    /\ chunksFile = NoFile
    /\ wpc = "idle"
    /\ wop = "none"
    /\ wl = NoLocals
    /\ eng = [_index |-> None, _chunks |-> None]
    /\ rpc = "idle"

\* indexer.run up to the embeddings: an empty chunk list makes
\* embeddings.shape[1] raise before anything is written.
BuildStart ==
    /\ wpc = "idle"
    /\ \E passages \in PassageLists :
         LET chunks == MakeChunks(passages) IN
         /\ Len(chunks) <= MaxChunks
         /\ wop' = "build"
         /\ IF chunks = <<>>
              THEN wpc' = "idle" /\ wl' = NoLocals
              ELSE /\ wpc' = "b_write_index"
                   /\ wl' = [chunks |-> chunks, index |-> Encode(chunks)]
    /\ UNCHANGED <<faissFile, chunksFile, eng, rpc, ask, srch, fn, thr, ing>>

\* faiss.write_index(index, FAISS_INDEX_FILE)
BuildWriteIndex ==
    /\ wpc = "b_write_index"
    /\ faissFile' = File(wl.index)
    /\ wpc' = "b_write_chunks"
    /\ UNCHANGED <<chunksFile, wop, wl, eng, rpc, ask, srch, fn, thr, ing>>

\* pickle.dump(chunks, CHUNKS_FILE)
BuildWriteChunks ==
    /\ wpc = "b_write_chunks"
    /\ chunksFile' = File(wl.chunks)
    /\ wpc' = "idle"
    /\ wl' = NoLocals
    /\ UNCHANGED <<faissFile, wop, eng, rpc, ask, srch, fn, thr, ing>>

\* index_new_passages up to the embeddings: no new chunk, nothing to do.
UpdateStart ==
    /\ wpc = "idle"
    /\ \E new_passages \in PassageLists :
         LET new_chunks == MakeChunks(new_passages) IN
         /\ Len(new_chunks) + Len(chunksFile.data)
                <= MaxChunks
         /\ Len(new_chunks) + Len(faissFile.data)
                <= MaxChunks
         /\ wop' = "update"
         /\ IF new_chunks = <<>>
              THEN wpc' = "idle" /\ wl' = NoLocals
              ELSE /\ wpc' = "u_load"
                   /\ wl' = [chunks |-> new_chunks, index |-> Encode(new_chunks)]
    /\ UNCHANGED <<faissFile, chunksFile, eng, rpc, ask, srch, fn, thr, ing>>

\* Load the existing pair and extend it, or start a new one.
UpdateLoad ==
    /\ wpc = "u_load"
    /\ IF BothExist(faissFile, chunksFile)
         THEN wl' = [chunks |-> ExtendChunks(chunksFile.data, wl.chunks),
                     index  |-> IndexAdd(faissFile.data, wl.index)]
         ELSE wl' = wl
    /\ wpc' = "u_write_index"
    /\ UNCHANGED <<faissFile, chunksFile, wop, eng, rpc, ask, srch, fn, thr, ing>>

UpdateWriteIndex ==
    /\ wpc = "u_write_index"
    /\ faissFile' = File(wl.index)
    /\ wpc' = "u_write_chunks"
    /\ UNCHANGED <<chunksFile, wop, wl, eng, rpc, ask, srch, fn, thr, ing>>

UpdateWriteChunks ==
    /\ wpc = "u_write_chunks"
    /\ chunksFile' = File(wl.chunks)
    /\ wpc' = "idle"
    /\ wl' = NoLocals
    /\ UNCHANGED <<faissFile, wop, eng, rpc, ask, srch, fn, thr, ing>>

\* The script's process is killed or dies between two of its steps.
Interrupt ==
    /\ wpc # "idle"
    /\ wpc' = "idle"
    /\ wl' = NoLocals
    /\ UNCHANGED <<faissFile, chunksFile, wop, eng, rpc, ask, srch, fn, thr, ing>>

\* search calls _load.
SearchBegin ==
    /\ rpc = "idle"
    /\ rpc' = "load"
    /\ UNCHANGED <<faissFile, chunksFile, wpc, wop, wl, eng, ask, srch, fn, thr, ing>>

\* _load: `if self._index is None: self._index = faiss.read_index(...)`.
\* Reading a missing file raises and ends the call.
LoadIndex ==
    /\ rpc = "load"
    /\ IF eng._index.set
         THEN rpc' = "serve" /\ eng' = eng
         ELSE IF ~faissFile.exists
                THEN rpc' = "idle" /\ eng' = eng
                ELSE rpc' = "load_chunks" /\ eng' = [eng EXCEPT !._index = Loaded(faissFile.data)]
    /\ UNCHANGED <<faissFile, chunksFile, wpc, wop, wl, ask, srch, fn, thr, ing>>

\* _load: `self._chunks = pickle.load(f)`; nothing compares the two lengths.
LoadChunks ==
    /\ rpc = "load_chunks"
    /\ IF ~chunksFile.exists
         THEN rpc' = "idle" /\ eng' = eng
         ELSE rpc' = "serve" /\ eng' = [eng EXCEPT !._chunks = Loaded(chunksFile.data)]
    /\ UNCHANGED <<faissFile, chunksFile, wpc, wop, wl, ask, srch, fn, thr, ing>>

\* The rest of search runs against the loaded pair and returns or raises.
Serve ==
    /\ rpc = "serve"
    /\ rpc' = "idle"
    /\ UNCHANGED <<faissFile, chunksFile, wpc, wop, wl, eng, ask, srch, fn, thr, ing>>

\* The serving process is restarted: QAEngine.__init__.
EngineInit ==
    /\ rpc = "idle"
    /\ eng # [_index |-> None, _chunks |-> None]
    /\ eng' = [_index |-> None, _chunks |-> None]
    /\ UNCHANGED <<faissFile, chunksFile, wpc, wop, wl, rpc, ask, srch, fn, thr, ing>>

AskUnused == [pc |-> "unused"]
SrchUnused == [pc |-> "unused"]
FnUnused == [pc |-> "unused"]
ThrUnused == [pc |-> "unused"]

IngUnused == [pc |-> "unused"]

Init == InitIndex /\ ask = AskUnused /\ srch = SrchUnused /\ fn = FnUnused /\ thr = ThrUnused /\ ing = IngUnused

NextCompleted ==
    \/ BuildStart \/ BuildWriteIndex \/ BuildWriteChunks
    \/ UpdateStart \/ UpdateLoad \/ UpdateWriteIndex \/ UpdateWriteChunks

Next ==
    \/ BuildStart \/ BuildWriteIndex \/ BuildWriteChunks
    \/ UpdateStart \/ UpdateLoad \/ UpdateWriteIndex \/ UpdateWriteChunks
    \/ SearchBegin \/ LoadIndex \/ LoadChunks \/ Serve \/ EngineInit
    \/ Interrupt

\* The scripts alone, one run after the other, every run to its end.
SpecCompleted == Init /\ [][NextCompleted]_vars

NextServing ==
    \/ UpdateStart \/ UpdateLoad \/ UpdateWriteIndex \/ UpdateWriteChunks
    \/ SearchBegin \/ LoadIndex \/ LoadChunks \/ Serve \/ EngineInit

\* Incremental updates, every run to its end, beside a serving process.
SpecServing == Init /\ [][NextServing]_vars

\* The scripts, which may be interrupted, beside a serving process.
Spec == Init /\ [][Next]_vars

----------------------------------------------------------------------------
(*                          Part I: properties                             *)

\* The two files hold the same number of entries and the vector at each
\* ordinal is the embedding of the chunk at that position.
Lockstep(ff, cf) ==
    /\ ff.exists = cf.exists
    /\ Len(ff.data) = Len(cf.data)
    /\ \A i \in 1..Len(ff.data) :
         i <= Len(cf.data) => ff.data[i] = Embed(cf.data[i].text)

\* C2: after any sequence of completed full builds and completed incremental
\* updates the persisted vector index and the persisted chunk sequence are in
\* lockstep: as many vectors as chunks, and the vector at ordinal i is the
\* embedding of the chunk at position i.
C2_Lockstep == wpc = "idle" => Lockstep(faissFile, chunksFile)

\* An update has appended the chunk of one passage behind the chunk of
\* another, with a different text.
C2_Witness ==
    /\ wpc = "idle" /\ wop = "update"
    /\ chunksFile.exists /\ Len(chunksFile.data) = 2
    /\ chunksFile.data[1].chunk_index = 0 /\ chunksFile.data[2].chunk_index = 0
    /\ chunksFile.data[1].text # chunksFile.data[2].text

\* C3: a reader that loads the two files while index_new_passages runs never
\* obtains an index and a chunk sequence of different lengths.
C3_AtomicReplace ==
    (eng._index.set /\ eng._chunks.set)
        => Len(eng._index.data) = Len(eng._chunks.data)

\* C4: no search is served against a loaded pair whose lengths differ: _load
\* fails on the mismatch.
C4_NoServeOnMismatch ==
    (rpc = "serve" /\ eng._index.set /\ eng._chunks.set)
        => Len(eng._index.data) = Len(eng._chunks.data)

\* One step keeps every persisted vector and chunk at its ordinal.
KeepsPersisted ==
    /\ IsPrefix(faissFile.data, faissFile'.data)
    /\ IsPrefix(chunksFile.data, chunksFile'.data)

\* C5: whatever the index directory holds before index_new_passages runs
\* (both files, one of them, none), each write of the update keeps every
\* vector and every chunk persisted before at its ordinal.
C5_AppendOnly ==
    [][(wpc \in {"u_write_index", "u_write_chunks"}) => KeepsPersisted]_vars

----------------------------------------------------------------------------
(*          Part II: answer generation and citation extraction             *)

MaxRanked == 3      \* chunks search hands to ask
MaxAnswerLen == 3   \* length of a free-form generated answer
MaxNum == 3         \* largest one-digit passage number the generator cites
MaxCited == 2       \* passage numbers in one well-formed marker line

\* A generated answer is a sequence of characters. "G" stands for the marker
\* text "GEBRUIKTE PASSAGES:" in any letter case, "a" for any other
\* non-blank character, " " and "\n" are blanks.
Digits == <<"0", "1", "2", "3", "4", "5", "6", "7", "8", "9">>

IsDigit(c) == \E d \in 1..10 : Digits[d] = c

DigitVal(c) == (CHOOSE d \in 1..10 : Digits[d] = c) - 1

\* \s
IsSpace(c) == c \in {" ", "\t", "\n"}

\* [\d,\s]
InClass(c) == IsDigit(c) \/ c = "," \/ IsSpace(c)

\* The character at position i, "$" behind the end.
At(s, i) == IF i >= 1 /\ i <= Len(s) THEN s[i] ELSE "$"

\* str.strip()
RECURSIVE LStrip(_)
LStrip(s) == IF s # <<>> /\ IsSpace(Head(s)) THEN LStrip(Tail(s)) ELSE s

RECURSIVE RStrip(_)
RStrip(s) ==
    IF s # <<>> /\ IsSpace(s[Len(s)]) THEN RStrip(SubSeq(s, 1, Len(s) - 1)) ELSE s

Strip(s) == RStrip(LStrip(s))

\* The first position from i on that holds no blank: where greedy \s* stops.
RECURSIVE SpaceStop(_, _)
SpaceStop(s, i) ==
    IF i <= Len(s) /\ IsSpace(s[i]) THEN SpaceStop(s, i + 1) ELSE i

\* The first position from i on outside [\d,\s]: where greedy [\d,\s]+ stops.
RECURSIVE ClassStop(_, _)
ClassStop(s, i) ==
    IF i <= Len(s) /\ InClass(s[i]) THEN ClassStop(s, i + 1) ELSE i

\* The regular expression GEBRUIKTE PASSAGES:\s*\[?([\d,\s]+)\]? tried with
\* the marker at position g: the span of group 1, <<0, 0>> when there is no
\* match. \s* is greedy and gives blanks back only when the rest cannot match.
GroupAt(s, g) ==
    LET p == SpaceStop(s, g + 1) IN
    IF At(s, p) = "[" /\ InClass(At(s, p + 1))
      THEN <<p + 1, ClassStop(s, p + 1) - 1>>
    ELSE IF InClass(At(s, p))
      THEN <<p, ClassStop(s, p) - 1>>
    ELSE IF p > g + 1
      THEN <<p - 1, p - 1>>
    ELSE <<0, 0>>

\* re.search: the leftmost marker at which the expression matches, 0 if none.
MatchStart(s) ==
    LET hits == {g \in 1..Len(s) : s[g] = "G" /\ GroupAt(s, g) # <<0, 0>>} IN
    IF hits = {} THEN 0 ELSE CHOOSE g \in hits : \A h \in hits : g <= h

\* re.findall(r"\d+", group) followed by int(n): the maximal digit runs, as
\* numbers, left to right. `acc` is the run read so far, -1 outside a run.
RECURSIVE FindNums(_, _)
FindNums(s, acc) ==
    IF s = <<>>
      THEN IF acc >= 0 THEN <<acc>> ELSE <<>>
    ELSE IF IsDigit(Head(s))
      THEN FindNums(Tail(s), (IF acc >= 0 THEN 10 * acc ELSE 0) + DigitVal(Head(s)))
    ELSE (IF acc >= 0 THEN <<acc>> ELSE <<>>) \o FindNums(Tail(s), -1)

\* A plausible slip: the 1-based numbers are returned as they are.
ToZeroBased_Kept(nums) == nums

\* indices = [int(n) - 1 for n in nums]
ToZeroBased(nums) == [i \in 1..Len(nums) |-> nums[i] - 1]

\* QAEngine._parse_used_passages
ParseUsedPassages(answer) ==
    LET g == MatchStart(answer) IN
    IF g # 0
      THEN LET grp == GroupAt(answer, g) IN
           [clean   |-> Strip(SubSeq(answer, 1, g - 1)),
            indices |-> ToZeroBased(FindNums(SubSeq(answer, grp[1], grp[2]), -1))]
      ELSE [clean |-> Strip(answer), indices |-> <<>>]

\* The source record of a chunk.
SourceOf(chunk) ==
    [titel |-> chunk.titel, url |-> chunk.bron_url, sectie |-> chunk.sectie]

\* A plausible slip: the URL is not recorded as seen.
MarkSeen_Forgot(seen, key) == seen

\* seen.add(key)
MarkSeen(seen, key) == seen \cup {key}

\* The loop of _get_sources_by_indices over the indices left, `seen` being the
\* URLs already listed.
RECURSIVE SourcesLoop(_, _, _)
SourcesLoop(chunks, indices, seen) ==
    IF indices = <<>> THEN <<>>
    ELSE LET idx == Head(indices) IN
         IF idx < 0 \/ idx >= Len(chunks)
           THEN SourcesLoop(chunks, Tail(indices), seen)
         ELSE LET chunk == chunks[idx + 1]
                  key == chunk.bron_url IN
              IF key # "" /\ key \notin seen
                THEN <<SourceOf(chunk)>>
                       \o SourcesLoop(chunks, Tail(indices), MarkSeen(seen, key))
                ELSE SourcesLoop(chunks, Tail(indices), seen)

\* QAEngine._get_sources_by_indices
GetSourcesByIndices(chunks, indices) == SourcesLoop(chunks, indices, {})

\* A plausible slip: the fallback lists no chunk.
FallbackIndices_None == <<>>

\* Fallback of ask: the top-ranked chunk, `[0]`.
FallbackIndices == <<0>>

\* f"Er ging iets mis bij het genereren van het antwoord: {e}"
Apology(e) == <<"Er ging iets mis bij het genereren van het antwoord: ">> \o e

\* The body of ask and of ask_detailed after search and build_context: the
\* generation call `gen` either raises or returns the answer text.
AskResult(chunks, gen) ==
    LET parsed == IF gen.raises
                    THEN [clean |-> Apology(gen.e), indices |-> <<>>]
                    ELSE ParseUsedPassages(gen.content)
        used_indices == parsed.indices
        sources == IF used_indices # <<>>
                     THEN GetSourcesByIndices(chunks, used_indices)
                     ELSE GetSourcesByIndices(chunks, FallbackIndices)
    IN [answer |-> parsed.clean, sources |-> sources, chunks |-> chunks,
        used_indices |-> used_indices]

Urls == {"", "u1", "u2"}

\* Ranked chunk lists as search returns them; the titel tells the ranks apart.
RankedLists ==
    UNION {{[i \in 1..k |-> [bron_url |-> u[i], titel |-> i, sectie |-> "s"]] :
               u \in [1..k -> Urls]} : k \in 0..MaxRanked}

\* Decimal digits of a number.
RECURSIVE ToDigits(_)
ToDigits(n) ==
    IF n < 10 THEN <<Digits[n + 1]>> ELSE ToDigits(n \div 10) \o <<Digits[(n % 10) + 1]>>

\* The numbers a marker line may cite: 0, the one-digit numbers, one
\* two-digit number.
Nums == (0..MaxNum) \cup {MaxNum + 10}

NumLists == UNION {[1..k -> Nums] : k \in 1..MaxCited}

RECURSIVE JoinNums(_, _)
JoinNums(ns, sep) ==
    IF Len(ns) = 1 THEN ToDigits(ns[1])
    ELSE ToDigits(Head(ns)) \o sep \o JoinNums(Tail(ns), sep)

\* The list part of a marker line: bracketed or not, blanks or not.
RenderList(ns, bracketed, spaced) ==
    (IF spaced THEN <<" ">> ELSE <<>>)
    \o (IF bracketed THEN <<"[">> ELSE <<>>)
    \o JoinNums(ns, IF spaced THEN <<",", " ">> ELSE <<",">>)
    \o (IF bracketed THEN <<"]">> ELSE <<>>)

\* Answer bodies in front of the marker line.
Bodies == {<<>>, <<"a">>, <<"a", " ", "a", "\n">>, <<" ", "a", "\n", "\n">>}

\* The text of an answer that ends with a well-formed marker line.
MarkedAnswer(body, ns, bracketed, spaced, tail) ==
    body \o <<"G">> \o RenderList(ns, bracketed, spaced) \o tail

\* Any short text, with or without marker.
FreeAnswers == SeqsUpTo({"G", "[", "]", ",", " ", "a", "1", "2"}, MaxAnswerLen)

\* What the generation call does: it raises e, or returns a text. For a text
\* made of a body and a marker line, `body` and `cited` keep what the line
\* was made from; `cited` is empty for any other text.
Generations ==
    {[raises |-> FALSE, content |-> MarkedAnswer(body, ns, b, sp, tail), e |-> <<>>,
      body |-> body, cited |-> ns] :
        body \in Bodies, ns \in NumLists, b \in BOOLEAN, sp \in BOOLEAN,
        tail \in {<<>>, <<"\n">>}}
    \cup {[raises |-> FALSE, content |-> a, e |-> <<>>, body |-> <<>>, cited |-> <<>>] :
        a \in FreeAnswers}
    \cup {[raises |-> TRUE, content |-> <<>>, e |-> e, body |-> <<>>, cited |-> <<>>] :
        e \in {<<>>, <<"a">>}}

AskIdle == [pc |-> "idle"]

\* QAEngine.ask
Ask ==
    /\ ask.pc = "idle"
    /\ \E chunks \in RankedLists, gen \in Generations :
         ask' = [pc |-> "done", gen |-> gen, result |-> AskResult(chunks, gen)]
    /\ UNCHANGED <<ixvars, srch, fn, thr, ing>>

\* QAEngine.ask_detailed: the same body behind another prompt.
AskDetailed ==
    /\ ask.pc = "idle"
    /\ \E chunks \in RankedLists, gen \in Generations :
         ask' = [pc |-> "done", gen |-> gen, result |-> AskResult(chunks, gen)]
    /\ UNCHANGED <<ixvars, srch, fn, thr, ing>>

\* The caller takes the result; the next question may follow.
AskReturn ==
    /\ ask.pc = "done"
    /\ ask' = AskIdle
    /\ UNCHANGED <<ixvars, srch, fn, thr, ing>>

InitAsk == InitIndex /\ ask = AskIdle /\ srch = SrchUnused /\ fn = FnUnused /\ thr = ThrUnused /\ ing = IngUnused

NextAsk == Ask \/ AskDetailed \/ AskReturn

SpecAsk == InitAsk /\ [][NextAsk]_vars

----------------------------------------------------------------------------
(*                          Part II: properties                            *)

AskDone == ask.pc = "done"

\* C1: when the generation call raises, ask and ask_detailed return a
\* non-empty apology as the answer and an empty source list, whatever chunks
\* were retrieved.
C1_FailureResult ==
    (AskDone /\ ask.gen.raises)
        => (ask.result.answer # <<>> /\ ask.result.sources = <<>>)

\* What the user is shown of each answer body: the body without the blanks
\* around it.
Shown(body) ==
    CASE body = <<>> -> <<>>
      [] body = <<"a">> -> <<"a">>
      [] body = <<"a", " ", "a", "\n">> -> <<"a", " ", "a">>
      [] body = <<" ", "a", "\n", "\n">> -> <<"a">>

\* The positions among 1..Len(cand) whose candidate is a position of chunks
\* with a non-empty URL.
Usable(chunks, cand) ==
    {k \in 1..Len(cand) :
        /\ cand[k] >= 0 /\ cand[k] < Len(chunks)
        /\ chunks[cand[k] + 1].bron_url # ""}

\* The first usable candidate that carries the URL u.
FirstWith(chunks, cand, u) ==
    CHOOSE k \in Usable(chunks, cand) :
        /\ chunks[cand[k] + 1].bron_url = u
        /\ \A j \in Usable(chunks, cand) :
             chunks[cand[j] + 1].bron_url = u => k <= j

\* srcs lists the URLs of the usable candidates, each once, in the order in
\* which the candidates first name them.
ListsInOrder(srcs, chunks, cand) ==
    /\ {srcs[i].url : i \in 1..Len(srcs)}
         = {chunks[cand[k] + 1].bron_url : k \in Usable(chunks, cand)}
    /\ \A i, j \in 1..Len(srcs) :
         i < j => FirstWith(chunks, cand, srcs[i].url)
                    < FirstWith(chunks, cand, srcs[j].url)

NoCitation(a) ==
    \A i, j \in 1..Len(a) : i < j => ~(a[i] = "G" /\ IsDigit(a[j]))

\* C7: when the answer holds no citation marker, or the marker yields no
\* number, ask returns normally and its sources are those of the single
\* top-ranked chunk.
C7_Fallback ==
    (AskDone /\ ~ask.gen.raises /\ NoCitation(ask.gen.content)) =>
        /\ ask.result.used_indices = <<>>
        /\ ask.result.sources
             = IF ask.result.chunks # <<>> /\ ask.result.chunks[1].bron_url # ""
                 THEN <<SourceOf(ask.result.chunks[1])>>
                 ELSE <<>>

\* A marker without numbers, two chunks of different URLs: only the first
\* chunk's source is returned.
C7_Witness ==
    /\ AskDone /\ ~ask.gen.raises
    /\ ask.gen.content = <<"a", "G", " ">>
    /\ Len(ask.result.chunks) = 2
    /\ ask.result.chunks[1].bron_url = "u1"
    /\ ask.result.chunks[2].bron_url = "u2"
    /\ ask.result.sources = <<SourceOf(ask.result.chunks[1])>>

\* The candidate positions ask hands to _get_sources_by_indices.
Candidates == IF ask.result.used_indices # <<>> THEN ask.result.used_indices ELSE <<0>>

\* C8: the returned sources have pairwise distinct, non-empty URLs; each URL
\* stands where its first candidate chunk occurs in the iteration order and
\* carries that chunk's record, later chunks of the same URL add nothing.
C8_SourceDedup ==
    AskDone =>
        LET srcs == ask.result.sources
            chunks == ask.result.chunks IN
        /\ \A i \in 1..Len(srcs) : srcs[i].url # ""
        /\ \A i, j \in 1..Len(srcs) : i # j => srcs[i].url # srcs[j].url
        /\ ListsInOrder(srcs, chunks, Candidates)
        /\ \A i \in 1..Len(srcs) :
             srcs[i] = SourceOf(chunks[Candidates[FirstWith(chunks, Candidates, srcs[i].url)] + 1])

\* Two cited chunks share one URL: one entry, that of the chunk cited first.
C8_Witness ==
    /\ AskDone
    /\ Len(ask.result.used_indices) = 2
    /\ ask.result.used_indices[1] = 2 /\ ask.result.used_indices[2] = 0
    /\ Len(ask.result.chunks) = 3
    /\ ask.result.chunks[1].bron_url = "u1"
    /\ ask.result.chunks[3].bron_url = "u1"
    /\ ask.result.sources = <<SourceOf(ask.result.chunks[3])>>

----------------------------------------------------------------------------
(*                 Part III: hybrid search with re-ranking                 *)

\* Candidates fetched from each of the two searches (qa.py: 25), scaled to
\* the model's index sizes so that an index may hold fewer vectors than the
\* pool, as many, or more.
RERANK_CANDIDATES == 2

MaxIndexed == 3     \* chunks of the loaded index
MaxKeywords == 1    \* keywords extracted from the query
MaxScore == 1       \* re-rank scores are 0..MaxScore
MaxTopK == 2        \* top_k asked for

\* The loaded chunk sequence of n chunks; the passage_id tells them apart.
StoredChunks(n) == [i \in 1..n |-> [passage_id |-> i - 1]]

\* Sequences of d distinct elements of S.
DistinctSeqs(S, d) ==
    {q \in [1..d -> S] : \A i, j \in 1..d : i # j => q[i] # q[j]}

Min2(a, b) == IF a <= b THEN a ELSE b

\* index.search(query_embedding, k) on an index of n vectors: the ordinals
\* of the nearest vectors first, -1 where the index has no further vector.
FaissSearch(nearest, k) ==
    [i \in 1..k |-> IF i <= Len(nearest) THEN nearest[i] ELSE -1]

\* A plausible slip: the list is left in the order it was built in.
SortByScore_Unsorted(seq) == seq

\* list.sort(key=score, reverse=True): descending and stable.
RECURSIVE SortByScore(_)
SortByScore(seq) ==
    IF seq = <<>> THEN <<>>
    ELSE LET i == CHOOSE i \in 1..Len(seq) :
                     /\ \A j \in 1..Len(seq) : seq[j].score <= seq[i].score
                     /\ \A j \in 1..(i - 1) : seq[j].score < seq[i].score
         IN <<seq[i]>> \o SortByScore(SubSeq(seq, 1, i - 1) \o SubSeq(seq, i + 1, Len(seq)))

\* seq[:k] for k >= 0
Take(seq, k) == SubSeq(seq, 1, Min2(k, Len(seq)))

\* A plausible slip: chunks without a match are kept with score 0.
Scored_KeepsZero(matches, total, i) ==
    [j \in 1..(Len(matches) - i + 1) |->
        [_chunk_idx |-> i + j - 2, score |-> matches[i + j - 1], total |-> total]]

\* The chunks that match a keyword, in stored order; `score` counts the
\* matching keywords out of `total` (the code's score is their quotient).
RECURSIVE Scored(_, _, _)
Scored(matches, total, i) ==
    IF i > Len(matches) THEN <<>>
    ELSE (IF matches[i] > 0
            THEN <<[_chunk_idx |-> i - 1, score |-> matches[i], total |-> total]>>
            ELSE <<>>)
         \o Scored(matches, total, i + 1)

\* A plausible slip: the first top_k chunks are returned whether or not they
\* match a keyword.
KeywordSearch_Unfiltered(matches, total, top_k) ==
    Take([i \in 1..Len(matches) |->
             [_chunk_idx |-> i - 1, score |-> matches[i], total |-> total]],
         top_k)

\* QAEngine._keyword_search: matches[i] is the number of the `total`
\* keywords found in chunk i.
KeywordSearch(matches, total, top_k) ==
    IF total = 0 THEN <<>>
    ELSE Take(SortByScore(Scored(matches, total, 1)), top_k)

\* candidate_indices after both loops of search.
CandidateIndices(indices, keyword_results) ==
    {indices[i] : i \in 1..Len(indices)}
      \cup {keyword_results[i]._chunk_idx : i \in 1..Len(keyword_results)}

\* self._chunks[idx] is defined for -len <= idx < len.
CanIndex(chunks, idx) == idx >= -Len(chunks) /\ idx < Len(chunks)

\* self._chunks[idx]: a negative idx counts from the end.
PyIndex(chunks, idx) ==
    IF idx >= 0 THEN chunks[idx + 1] ELSE chunks[Len(chunks) + idx + 1]

\* The copies of the candidate chunks with their re-rank scores; the score
\* of a (query, text) pair depends on the chunk alone.
Combined(chunks, candidate_list, scores) ==
    [i \in 1..Len(candidate_list) |->
        LET chunk == PyIndex(chunks, candidate_list[i]) IN
        [passage_id |-> chunk.passage_id, score |-> scores[chunk.passage_id + 1]]]

\* All orders in which the elements of a set may be listed.
Orders(S) == DistinctSeqs(S, Cardinality(S))

SrchIdle == [pc |-> "idle"]

\* QAEngine.search(query, top_k) on a loaded index of n chunks. The query
\* decides the nearest vectors, the keywords and their matches, and the
\* re-rank scores; list(candidate_indices) is in the set's iteration order.
Search ==
    /\ srch.pc = "idle"
    /\ \E n \in 0..MaxIndexed, top_k \in 0..MaxTopK, total \in 0..MaxKeywords :
       \E nearest \in DistinctSeqs(0..(n - 1), Min2(n, RERANK_CANDIDATES)),
          matches \in [1..n -> 0..total],
          scores \in [1..n -> 0..MaxScore] :
         LET chunks == StoredChunks(n)
             indices == FaissSearch(nearest, RERANK_CANDIDATES)
             keyword_results == KeywordSearch(matches, total, RERANK_CANDIDATES)
             candidate_indices == CandidateIndices(indices, keyword_results)
         IN \E candidate_list \in Orders(candidate_indices) :
              LET ok == \A i \in 1..Len(candidate_list) :
                            CanIndex(chunks, candidate_list[i])
              IN srch' = [pc |-> "done", n |-> n, top_k |-> top_k,
                          indices |-> indices, matches |-> matches, total |-> total,
                          scores |-> scores, candidate_list |-> candidate_list,
                          raised |-> ~ok,
                          result |-> IF ok
                                       THEN Take(SortByScore(
                                                Combined(chunks, candidate_list, scores)),
                                                top_k)
                                       ELSE <<>>]
    /\ UNCHANGED <<ixvars, ask, fn, thr, ing>>

\* The caller takes the list; the next query may follow.
SearchReturn ==
    /\ srch.pc = "done"
    /\ srch' = SrchIdle
    /\ UNCHANGED <<ixvars, ask, fn, thr, ing>>

InitSearch == InitIndex /\ ask = AskUnused /\ srch = SrchIdle /\ fn = FnUnused /\ thr = ThrUnused /\ ing = IngUnused

NextSearch == Search \/ SearchReturn

SpecSearch == InitSearch /\ [][NextSearch]_vars

----------------------------------------------------------------------------
(*                         Part III: properties                            *)

SearchDone == srch.pc = "done" /\ ~srch.raised

\* The ordinals among the semantic nearest neighbours.
SemanticTop == {srch.indices[i] : i \in 1..Len(srch.indices)} \ {-1}

\* The chunks ahead of ordinal o in the lexical ranking: more keywords
\* matched, or as many and stored earlier.
LexAhead(o) ==
    {p \in 0..(srch.n - 1) :
        \/ srch.matches[p + 1] > srch.matches[o + 1]
        \/ srch.matches[p + 1] = srch.matches[o + 1] /\ p < o}

\* The ordinals among the lexical top RERANK_CANDIDATES.
LexicalTop ==
    {o \in 0..(srch.n - 1) :
        /\ srch.matches[o + 1] > 0
        /\ Cardinality(LexAhead(o)) < RERANK_CANDIDATES}

\* C9: search returns at most top_k chunks, in non-increasing order of
\* re-rank score, each from the union of the semantic and the lexical top
\* RERANK_CANDIDATES, and leaves out no candidate that scores strictly higher
\* than a returned chunk.
C9_RankedTopK ==
    SearchDone =>
        LET res == srch.result
            got == {res[i].passage_id : i \in 1..Len(res)} IN
        /\ Len(res) <= srch.top_k
        /\ \A i \in 1..(Len(res) - 1) : res[i].score >= res[i + 1].score
        /\ got \subseteq (SemanticTop \cup LexicalTop)
        /\ \A i \in 1..Len(res) : res[i].score = srch.scores[res[i].passage_id + 1]
        /\ \A c \in (SemanticTop \cup LexicalTop) \ got :
             \A i \in 1..Len(res) : srch.scores[c + 1] <= res[i].score

\* Three chunks, two nearest neighbours and a third chunk found by keyword
\* only; the candidate listed first scores lowest and is cut, the two others
\* are returned.
C9_Witness ==
    /\ SearchDone
    /\ srch.n = 3 /\ srch.top_k = 2
    /\ Cardinality(SemanticTop \cup LexicalTop) = 3
    /\ LexicalTop \ SemanticTop # {}
    /\ Len(srch.result) = 2
    /\ srch.candidate_list[1] \in SemanticTop
    /\ srch.scores[srch.candidate_list[1] + 1] < srch.result[2].score

\* C10: for every index size, also below RERANK_CANDIDATES, the list search
\* returns holds each stored chunk at most once.
C10_NoDuplicates ==
    SearchDone =>
        \A i, j \in 1..Len(srch.result) :
            i # j => srch.result[i].passage_id # srch.result[j].passage_id

\* The candidates in the order in which search adds them to the candidate
\* set: the semantic ordinals as returned, then the lexical ones, each at
\* its first occurrence.
RECURSIVE FirstOccurrences(_, _)
FirstOccurrences(seq, seen) ==
    IF seq = <<>> THEN <<>>
    ELSE IF Head(seq) \in seen THEN FirstOccurrences(Tail(seq), seen)
    ELSE <<Head(seq)>> \o FirstOccurrences(Tail(seq), seen \cup {Head(seq)})

InsertionOrder ==
    LET keyword_results == KeywordSearch(srch.matches, srch.total, RERANK_CANDIDATES)
    IN FirstOccurrences(
           srch.indices \o [i \in 1..Len(keyword_results) |-> keyword_results[i]._chunk_idx],
           {})

\* C11: candidates with equal re-rank scores appear in the result in the
\* order of their insertion into the candidate set (semantic candidates in
\* nearest-neighbour order, then the lexical ones): the result is the one a
\* stable descending sort of the insertion-ordered candidates gives.
C11_TieBreakInsertionOrder ==
    SearchDone =>
        srch.result = Take(SortByScore(Combined(StoredChunks(srch.n),
                                                InsertionOrder, srch.scores)),
                           srch.top_k)

\* C12: search on an index of 0 vectors and an empty chunk sequence returns
\* the empty list and does not raise.
C12_EmptyIndex ==
    (srch.pc = "done" /\ srch.n = 0) => (~srch.raised /\ srch.result = <<>>)

\* Minimum relevance (qa.py: 0.30) in the model's score unit of 0.15, so that
\* half of it is one unit and a score of 0 lies below the cut-off.
MIN_SCORE == 2

\* C13: every chunk search returns scores at least half of MIN_SCORE.
C13_MinScoreCutoff ==
    SearchDone =>
        \A i \in 1..Len(srch.result) : 2 * srch.result[i].score >= MIN_SCORE

----------------------------------------------------------------------------
(*                      Part IV: the helper functions                      *)

FnIdle == [pc |-> "idle"]

\* The caller takes the result; the next call may follow.
FnReturn ==
    /\ fn.pc = "done"
    /\ fn' = FnIdle
    /\ UNCHANGED <<ixvars, ask, srch, thr, ing>>

InitFn ==
    InitIndex /\ ask = AskUnused /\ srch = SrchUnused /\ fn = FnIdle /\ thr = ThrUnused /\ ing = IngUnused

UpperCase == <<"A", "B", "C", "D", "E", "F", "G", "H", "I", "J", "K", "L", "M",
               "N", "O", "P", "Q", "R", "S", "T", "U", "V", "W", "X", "Y", "Z">>

LowerCase == <<"a", "b", "c", "d", "e", "f", "g", "h", "i", "j", "k", "l", "m",
               "n", "o", "p", "q", "r", "s", "t", "u", "v", "w", "x", "y", "z">>

IsUpper(c) == \E k \in 1..26 : UpperCase[k] = c

IsLower(c) == \E k \in 1..26 : LowerCase[k] = c

\* str.lower() on one character and on a string
LowerChar(c) ==
    IF IsUpper(c) THEN LowerCase[CHOOSE k \in 1..26 : UpperCase[k] = c] ELSE c

Lower(s) == [i \in 1..Len(s) |-> LowerChar(s[i])]

\* kw in text
Contains(kw, text) ==
    \E i \in 0..(Len(text) - Len(kw)) : SubSeq(text, i + 1, i + Len(kw)) = kw

\* chunk.get(key, "")
Get(chunk, key) == IF key \in DOMAIN chunk THEN chunk[key] ELSE <<>>

\* The inner loop of _keyword_search: matches += 1 for every keyword found
\* in the lower-cased text, titel or heading.
RECURSIVE CountMatches(_, _)
CountMatches(chunk, keywords) ==
    IF keywords = <<>> THEN 0
    ELSE LET kw == Head(keywords)
             text_lower == Lower(chunk.text)
             titel_lower == Lower(Get(chunk, "titel"))
             heading_lower == Lower(Get(chunk, "heading"))
             hit == \/ Contains(kw, text_lower)
                    \/ Contains(kw, titel_lower)
                    \/ Contains(kw, heading_lower)
         IN (IF hit THEN 1 ELSE 0) + CountMatches(chunk, Tail(keywords))

MatchCounts(chunks, keywords) ==
    [i \in 1..Len(chunks) |-> CountMatches(chunks[i], keywords)]

MaxFieldLen == 2    \* characters of a chunk text
MaxStore == 2       \* chunks of the store _keyword_search scans
MaxKw == 2          \* keywords handed to _keyword_search

\* Chunks with and without titel and heading; upper case occurs in the text
\* and in the titel.
KwChunks ==
    LET texts == SeqsUpTo({"a", "B"}, MaxFieldLen) IN
    {[text |-> t] : t \in texts}
      \cup {[text |-> t, titel |-> <<"B">>] : t \in texts}
      \cup {[text |-> t, titel |-> <<>>, heading |-> <<"a">>] : t \in texts}

KwWords == {<<"a">>, <<"b">>, <<"a", "b">>, <<"B">>}

\* QAEngine._keyword_search(keywords, top_k) on a chunk store.
KeywordSearchCall ==
    /\ fn.pc = "idle"
    /\ \E chunks \in SeqsUpTo(KwChunks, MaxStore),
          keywords \in SeqsUpTo(KwWords, MaxKw),
          top_k \in 0..MaxTopK :
         fn' = [pc |-> "done", name |-> "_keyword_search",
                chunks |-> chunks, keywords |-> keywords, top_k |-> top_k,
                result |-> KeywordSearch(MatchCounts(chunks, keywords),
                                         Len(keywords), top_k)]
    /\ UNCHANGED <<ixvars, ask, srch, thr, ing>>

NextKeywordSearch == KeywordSearchCall \/ FnReturn

SpecKeywordSearch == InitFn /\ [][NextKeywordSearch]_vars

\* The keywords (by position in the list) that occur in one of the three
\* lower-cased fields of the chunk.
Matched(chunk, keywords) ==
    {k \in 1..Len(keywords) :
        \E f \in {"text", "titel", "heading"} :
            Contains(keywords[k], Lower(Get(chunk, f)))}

\* C15: for a non-empty keyword list _keyword_search returns at most top_k
\* chunks, in non-increasing score order, each matching at least one keyword
\* and scored matched / total, so that 0 < score <= 1.
C15_KeywordScores ==
    (fn.pc = "done" /\ fn.name = "_keyword_search" /\ fn.keywords # <<>>) =>
        LET res == fn.result IN
        /\ Len(res) <= fn.top_k
        /\ \A i \in 1..Len(res) :
             /\ res[i]._chunk_idx \in 0..(Len(fn.chunks) - 1)
             /\ res[i].total = Len(fn.keywords)
             /\ res[i].score =
                  Cardinality(Matched(fn.chunks[res[i]._chunk_idx + 1], fn.keywords))
             /\ 0 < res[i].score /\ res[i].score <= res[i].total
        /\ \A i \in 1..(Len(res) - 1) :
             res[i].score * res[i + 1].total >= res[i + 1].score * res[i].total

\* Two keywords and two chunks: the second chunk matches both (one of them
\* through its upper-case text), the first only one; the second is ranked
\* first.
C15_Witness ==
    /\ fn.pc = "done" /\ fn.name = "_keyword_search"
    /\ fn.keywords = <<<<"a">>, <<"b">>>>
    /\ Len(fn.chunks) = 2 /\ fn.chunks[2].text = <<"a", "B">>
    /\ Len(fn.result) = 2
    /\ fn.result[1]._chunk_idx = 1 /\ fn.result[1].score = 2
    /\ fn.result[2]._chunk_idx = 0 /\ fn.result[2].score = 1

IsLetter(c) == IsUpper(c) \/ IsLower(c)

\* \w
IsWordChar(c) == IsLetter(c) \/ IsDigit(c) \/ c = "_"

\* \b between the characters at positions i and i + 1
Boundary(s, i) == IsWordChar(At(s, i)) # IsWordChar(At(s, i + 1))

\* The first position from i on outside [\d\-]: where greedy [\d\-]* stops.
RECURSIVE NumStop(_, _)
NumStop(s, i) ==
    IF i <= Len(s) /\ (IsDigit(s[i]) \/ s[i] = "-") THEN NumStop(s, i + 1) ELSE i

\* The first position from i on outside [\w\-]: where greedy [\w\-]* stops.
RECURSIVE WordStop(_, _)
WordStop(s, i) ==
    IF i <= Len(s) /\ (IsWordChar(s[i]) \/ s[i] = "-") THEN WordStop(s, i + 1) ELSE i

NoMatch == <<0, 0, 0>>

\* The expression \b([A-Z](?:a)?)\s+(\d[\d\-]*)\b, ignoring case, tried at
\* position p: <<last position of group 1, first and last position of
\* group 2>>, NoMatch when it does not match there. The greedy [\d\-]* gives
\* characters back until a word boundary follows.
ModelAt(s, p) ==
    IF ~(p <= Len(s) /\ IsLetter(s[p]) /\ Boundary(s, p - 1)) THEN NoMatch
    ELSE LET le == IF At(s, p + 1) \in {"a", "A"} THEN p + 1 ELSE p
             d == SpaceStop(s, le + 1)
         IN IF ~(d > le + 1 /\ IsDigit(At(s, d))) THEN NoMatch
            ELSE LET ends == {e \in d..(NumStop(s, d) - 1) : Boundary(s, e)}
                 IN IF ends = {} THEN NoMatch
                    ELSE <<le, d, CHOOSE e \in ends : \A x \in ends : x <= e>>

\* re.findall of that expression: the (letter, num) pairs of the matches,
\* left to right, not overlapping.
RECURSIVE FindModels(_, _)
FindModels(s, p) ==
    IF p > Len(s) THEN <<>>
    ELSE LET m == ModelAt(s, p) IN
         IF m = NoMatch THEN FindModels(s, p + 1)
         ELSE <<[letter |-> SubSeq(s, p, m[1]), num |-> SubSeq(s, m[2], m[3])]>>
                \o FindModels(s, m[3] + 1)

\* str.upper() on one character and on a string
UpperChar(c) ==
    IF IsLower(c) THEN UpperCase[CHOOSE k \in 1..26 : LowerCase[k] = c] ELSE c

Upper(s) == [i \in 1..Len(s) |-> UpperChar(s[i])]

\* keywords.append(f"{letter.upper()} {num}".lower()) for every match
ModelKeywords(model_pattern) ==
    [i \in 1..Len(model_pattern) |->
        Lower(Upper(model_pattern[i].letter) \o <<" ">> \o model_pattern[i].num)]

\* re.findall(r"[a-zA-Z0-9À-ÿ][\w\-]*", s); the model's queries hold no
\* character of the range À-ÿ.
RECURSIVE FindWords(_, _)
FindWords(s, p) ==
    IF p > Len(s) THEN <<>>
    ELSE IF IsLetter(s[p]) \/ IsDigit(s[p])
      THEN LET e == WordStop(s, p + 1) IN
           <<SubSeq(s, p, e - 1)>> \o FindWords(s, e)
    ELSE FindWords(s, p + 1)

\* The stopword set of _extract_keywords.
stopwoorden ==
    {<<"d", "e">>, <<"h", "e", "t">>, <<"e", "e", "n">>, <<"v", "a", "n">>,
     <<"i", "n">>, <<"i", "s">>, <<"o", "p">>, <<"t", "e">>,
     <<"d", "a", "t">>, <<"d", "i", "e">>, <<"e", "r">>, <<"e", "n">>,
     <<"v", "o", "o", "r">>, <<"a", "a", "n">>, <<"m", "e", "t">>,
     <<"a", "l", "s">>, <<"o", "m">>, <<"b", "i", "j">>, <<"o", "o", "k">>,
     <<"n", "o", "g">>, <<"w", "e", "l">>, <<"n", "i", "e", "t">>,
     <<"m", "a", "a", "r">>, <<"d", "a", "n">>, <<"w", "a", "t">>,
     <<"h", "o", "e">>, <<"w", "i", "e">>, <<"w", "a", "a", "r">>,
     <<"w", "a", "n", "n", "e", "e", "r">>,
     <<"h", "o", "e", "v", "e", "e", "l">>, <<"w", "e", "l", "k">>,
     <<"w", "e", "l", "k", "e">>, <<"k", "a", "n">>, <<"k", "u", "n">>,
     <<"m", "o", "e", "t">>, <<"w", "o", "r", "d", "e", "n">>,
     <<"w", "o", "r", "d", "t">>, <<"z", "i", "j", "n">>,
     <<"b", "e", "n">>, <<"w", "a", "s">>, <<"w", "e", "r", "d">>,
     <<"h", "e", "e", "f", "t">>, <<"h", "e", "b", "b", "e", "n">>,
     <<"i", "k">>, <<"j", "e">>, <<"w", "e">>, <<"z", "e">>,
     <<"d", "i", "t">>, <<"d", "e", "z", "e">>, <<"d", "i", "e">>,
     <<"d", "a", "a", "r">>, <<"h", "i", "e", "r">>, <<"z", "o">>,
     <<"a", "l">>, <<"n", "a", "a", "r">>, <<"o", "v", "e", "r">>,
     <<"d", "o", "o", "r">>, <<"t", "o", "t">>, <<"u", "i", "t">>}

InSeq(x, seq) == \E i \in 1..Len(seq) : seq[i] = x

\* for w in woorden: append w unless it is a stopword, a single character or
\* already a keyword.
RECURSIVE AddWords(_, _)
AddWords(woorden, keywords) ==
    IF woorden = <<>> THEN keywords
    ELSE LET w == Head(woorden) IN
         AddWords(Tail(woorden),
                  IF w \notin stopwoorden /\ Len(w) > 1 /\ ~InSeq(w, keywords)
                    THEN Append(keywords, w)
                    ELSE keywords)

\* QAEngine._extract_keywords
ExtractKeywords(query) ==
    AddWords(FindWords(Lower(query), 1), ModelKeywords(FindModels(query, 1)))

MaxQuery == 7       \* characters of a query

QueryChars == {"N", "a", " ", "1", "-"}

\* QAEngine._extract_keywords(query)
ExtractKeywordsCall ==
    /\ fn.pc = "idle"
    /\ \E query \in SeqsUpTo(QueryChars, MaxQuery) :
         fn' = [pc |-> "done", name |-> "_extract_keywords", query |-> query,
                result |-> ExtractKeywords(query)]
    /\ UNCHANGED <<ixvars, ask, srch, thr, ing>>

NextKeywords == ExtractKeywordsCall \/ FnReturn

SpecKeywords == InitFn /\ [][NextKeywords]_vars

\* The query is one model code: a letter, optionally an a, one blank, and
\* digits and hyphens between two digits.
IsCode(q) ==
    \E b \in {2, 3} :
        /\ Len(q) > b /\ IsLetter(q[1]) /\ q[b] = " "
        /\ b = 3 => q[2] \in {"a", "A"}
        /\ \A i \in (b + 1)..Len(q) : IsDigit(q[i]) \/ q[i] = "-"
        /\ IsDigit(q[b + 1]) /\ IsDigit(q[Len(q)])

\* C16: _extract_keywords returns no keyword twice, only lower-case keywords
\* and no stopword, and a query that is one model code ("N 10-2") has that
\* code, lower-cased, as one keyword ("n 10-2").
C16_KeywordsOrderedSet ==
    (fn.pc = "done" /\ fn.name = "_extract_keywords") =>
        LET kws == fn.result IN
        /\ \A i, j \in 1..Len(kws) : i # j => kws[i] # kws[j]
        /\ \A i \in 1..Len(kws) :
             /\ \A k \in 1..Len(kws[i]) : ~IsUpper(kws[i][k])
             /\ kws[i] \notin stopwoorden
        /\ IsCode(fn.query) => InSeq(Lower(fn.query), kws)

\* Budget of the context text in characters (qa.py: MAX_CONTEXT_CHARS).
MAX_CONTEXT_CHARS == 10000

MaxCtxChunks == 3   \* ranked chunks handed to build_context

\* Lengths of the chunk texts. A text is kept by its length alone: the units
\* around the budget, around the minimum useful remainder and the ordinary
\* chunk of the indexer occur.
TextLens == {0, 1495, 4995, 9894, 9895, 9995, 9996}

\* len(f"[{i}]\n"): the brackets, the digits of i and the newline.
LabelLen(i) == 2 + Len(ToDigits(i)) + 1

\* part = f"[{i}]\n{chunk['text']}\n", kept as its rank and its length.
Part(i, text_len) == [i |-> i, len |-> LabelLen(i) + text_len + 1, ellipsis |-> FALSE]

\* A plausible slip: the unit is appended uncut.
Truncate_Whole(part, remaining) == part

\* part[:remaining] + "...", for remaining below len(part)
Truncate(part, remaining) == [part EXCEPT !.len = remaining, !.ellipsis = TRUE]

\* The loop of build_context from rank i on.
RECURSIVE ContextLoop(_, _, _, _)
ContextLoop(lens, i, total_chars, context_parts) ==
    IF i > Len(lens) THEN context_parts
    ELSE LET part == Part(i, lens[i]) IN
         IF total_chars + part.len > MAX_CONTEXT_CHARS
           THEN LET remaining == MAX_CONTEXT_CHARS - total_chars IN
                IF remaining > 100
                  THEN Append(context_parts, Truncate(part, remaining))
                  ELSE context_parts
           ELSE ContextLoop(lens, i + 1, total_chars + part.len,
                            Append(context_parts, part))

\* QAEngine.build_context: context_parts before the join
BuildContext(lens) == ContextLoop(lens, 1, 0, <<>>)

RECURSIVE SumLens(_)
SumLens(parts) ==
    IF parts = <<>> THEN 0
    ELSE Head(parts).len + (IF Head(parts).ellipsis THEN 3 ELSE 0) + SumLens(Tail(parts))

\* len("\n".join(context_parts))
JoinLen(parts) == SumLens(parts) + (IF parts = <<>> THEN 0 ELSE Len(parts) - 1)

\* QAEngine.build_context(chunks)
BuildContextCall ==
    /\ fn.pc = "idle"
    /\ \E lens \in SeqsUpTo(TextLens, MaxCtxChunks) :
         fn' = [pc |-> "done", name |-> "build_context", lens |-> lens,
                parts |-> BuildContext(lens),
                result_len |-> JoinLen(BuildContext(lens))]
    /\ UNCHANGED <<ixvars, ask, srch, thr, ing>>

NextContext == BuildContextCall \/ FnReturn

SpecContext == InitFn /\ [][NextContext]_vars

ContextDone == fn.pc = "done" /\ fn.name = "build_context"

\* C17: the text build_context returns is never longer than
\* MAX_CONTEXT_CHARS plus the length of one label prefix.
C17_ContextBound ==
    ContextDone => fn.result_len <= MAX_CONTEXT_CHARS + LabelLen(Len(fn.lens))

\* Length of the full units 1..m.
RECURSIVE Cum(_, _)
Cum(lens, m) == IF m = 0 THEN 0 ELSE Cum(lens, m - 1) + LabelLen(m) + lens[m] + 1

\* The number of leading units that fit in the budget together.
Fitting(lens) ==
    CHOOSE m \in 0..Len(lens) :
        /\ Cum(lens, m) <= MAX_CONTEXT_CHARS
        /\ m < Len(lens) => Cum(lens, m + 1) > MAX_CONTEXT_CHARS

\* C18: the context holds the units 1..m in full and in rank order, m being
\* the number of leading units that fit in MAX_CONTEXT_CHARS; the unit m + 1,
\* if there is one, follows cut to the remaining budget with an ellipsis
\* when that remainder exceeds 100 characters and is left out otherwise; no
\* later unit is included.
C18_ContextPrefix ==
    ContextDone =>
        LET m == Fitting(fn.lens)
            rest == MAX_CONTEXT_CHARS - Cum(fn.lens, m)
            cut == m < Len(fn.lens) /\ rest > 100
        IN /\ Len(fn.parts) = (IF cut THEN m + 1 ELSE m)
           /\ \A i \in 1..m :
                fn.parts[i] = [i |-> i, len |-> LabelLen(i) + fn.lens[i] + 1,
                               ellipsis |-> FALSE]
           /\ cut => fn.parts[m + 1] = [i |-> m + 1, len |-> rest, ellipsis |-> TRUE]

\* Two units fit, the third is cut to the 3500 characters that remain.
C18_Witness ==
    /\ ContextDone
    /\ fn.lens = <<4995, 1495, 4995>>
    /\ Len(fn.parts) = 3
    /\ fn.parts[3].ellipsis /\ fn.parts[3].len = 3500

MaxSplitText == 5   \* characters of a text handed to split_into_chunks
MaxSplitChars == 3  \* max_chars
MaxOverlap == 2     \* overlap

\* A plausible slip: a text of exactly max_chars characters is split too.
Fits_Strict(text, max_chars) == Len(text) < max_chars

\* len(text) <= max_chars
Fits(text, max_chars) == Len(text) <= max_chars

\* text.split("\n"): the pieces between the newlines, at least one.
RECURSIVE SplitLines(_, _)
SplitLines(text, para) ==
    IF text = <<>> THEN <<para>>
    ELSE IF Head(text) = "\n" THEN <<para>> \o SplitLines(Tail(text), <<>>)
    ELSE SplitLines(Tail(text), Append(para, Head(text)))

\* current_chunk[-overlap:] if len(current_chunk) > overlap else current_chunk;
\* the slice [-0:] is the whole string.
OverlapText(current_chunk, overlap) ==
    IF Len(current_chunk) > overlap /\ overlap > 0
      THEN SubSeq(current_chunk, Len(current_chunk) - overlap + 1, Len(current_chunk))
      ELSE current_chunk

\* The loop over the paragraphs and the closing append.
RECURSIVE SplitLoop(_, _, _, _, _)
SplitLoop(paragraphs, current_chunk, chunks, max_chars, overlap) ==
    IF paragraphs = <<>>
      THEN IF Strip(current_chunk) # <<>>
             THEN Append(chunks, Strip(current_chunk))
             ELSE chunks
    ELSE LET para == Head(paragraphs) IN
         IF current_chunk # <<>> /\ Len(current_chunk) + Len(para) + 1 > max_chars
           THEN SplitLoop(Tail(paragraphs),
                          OverlapText(current_chunk, overlap) \o <<"\n">> \o para,
                          Append(chunks, Strip(current_chunk)), max_chars, overlap)
           ELSE SplitLoop(Tail(paragraphs),
                          IF current_chunk # <<>>
                            THEN current_chunk \o <<"\n">> \o para
                            ELSE para,
                          chunks, max_chars, overlap)

\* A plausible slip: a long text is cut at max_chars, wherever that falls.
SplitIntoChunks_Cut(text, max_chars, overlap) ==
    IF Len(text) <= max_chars THEN <<text>>
    ELSE <<SubSeq(text, 1, max_chars), SubSeq(text, max_chars + 1, Len(text))>>

\* split_into_chunks(text, max_chars, overlap)
SplitIntoChunks(text, max_chars, overlap) ==
    IF Fits(text, max_chars) THEN <<text>>
    ELSE SplitLoop(SplitLines(text, <<>>), <<>>, <<>>, max_chars, overlap)

SplitChars == {"x", " ", "\n"}

SplitIntoChunksCall ==
    /\ fn.pc = "idle"
    /\ \E text \in SeqsUpTo(SplitChars, MaxSplitText),
          max_chars \in 0..MaxSplitChars, overlap \in 0..MaxOverlap :
         fn' = [pc |-> "done", name |-> "split_into_chunks", text |-> text,
                max_chars |-> max_chars, overlap |-> overlap,
                result |-> SplitIntoChunks(text, max_chars, overlap)]
    /\ UNCHANGED <<ixvars, ask, srch, thr, ing>>

NextSplit == SplitIntoChunksCall \/ FnReturn

SpecSplit == InitFn /\ [][NextSplit]_vars

SplitDone == fn.pc = "done" /\ fn.name = "split_into_chunks"

\* C19: for a text of at most max_chars characters (the empty text and a
\* text of exactly max_chars characters included) split_into_chunks returns
\* the one-element list of the unchanged text.
C19_ShortTextUnchanged ==
    (SplitDone /\ Len(fn.text) <= fn.max_chars) => fn.result = <<fn.text>>

\* A text of exactly max_chars characters that starts with a blank and holds
\* a newline comes back as it is.
C19_Witness ==
    /\ SplitDone
    /\ fn.max_chars = 3 /\ fn.text = <<" ", "\n", "x">>
    /\ fn.result = <<fn.text>>

\* C20: for a text longer than max_chars split_into_chunks returns at least
\* 2 chunks.
C20_LongTextSplits ==
    (SplitDone /\ Len(fn.text) > fn.max_chars) => Len(fn.result) >= 2

\* C21: for a text longer than max_chars, max_chars >= 1 and overlap >= 0,
\* every chunk split_into_chunks returns has at most max_chars + overlap
\* characters.
C21_ChunkLengthBound ==
    (SplitDone /\ Len(fn.text) > fn.max_chars /\ fn.max_chars >= 1) =>
        \A i \in 1..Len(fn.result) : Len(fn.result[i]) <= fn.max_chars + fn.overlap

\* The two strings have a non-empty substring in common.
ShareText(a, b) ==
    \E i \in 1..Len(a) : \E j \in i..Len(a) : Contains(SubSeq(a, i, j), b)

\* C22: when split_into_chunks returns two or more chunks (overlap >= 1),
\* every chunk after the first has a non-empty substring in common with the
\* chunk before it.
C22_ConsecutiveOverlap ==
    (SplitDone /\ Len(fn.result) >= 2 /\ fn.overlap >= 1) =>
        \A i \in 1..(Len(fn.result) - 1) : ShareText(fn.result[i], fn.result[i + 1])

\* C23: for every input text, no chunk split_into_chunks returns is empty
\* or starts or ends with whitespace.
C23_ChunksStripped ==
    SplitDone =>
        \A i \in 1..Len(fn.result) :
            LET c == fn.result[i] IN
            c # <<>> /\ ~IsSpace(c[1]) /\ ~IsSpace(c[Len(c)])

\* C24: every paragraph of the input that holds a non-whitespace character
\* is, without its own leading and trailing whitespace, a contiguous part of
\* at least one returned chunk, also when it is longer than max_chars.
C24_ParagraphsWhole ==
    SplitDone =>
        LET paragraphs == SplitLines(fn.text, <<>>) IN
        \A p \in 1..Len(paragraphs) :
            Strip(paragraphs[p]) # <<>> =>
                \E i \in 1..Len(fn.result) :
                    Contains(Strip(paragraphs[p]), fn.result[i])

\* A paragraph of three characters with max_chars = 2 stays whole in the
\* second of two chunks.
C24_Witness ==
    /\ SplitDone
    /\ fn.text = <<"x", "\n", "x", " ", "x">> /\ fn.max_chars = 2 /\ fn.overlap = 1
    /\ Len(fn.result) = 2
    /\ Contains(<<"x", " ", "x">>, fn.result[2])

----------------------------------------------------------------------------
(*              Part V: threads that share one QAEngine                    *)

MaxThreads == 2     \* sessions served at the same time

Threads == 1..MaxThreads

Resources == {"_model", "_reranker", "_index", "_chunks"}

\* QAEngine.__init__ with all four lazily loaded fields.
EngineNew == [r \in Resources |-> None]

\* The positions of the threads and the number of times each field was
\* assigned a freshly loaded object.
ThrIdle == [pc |-> [t \in Threads |-> "idle"], loads |-> [r \in Resources |-> 0]]

\* load_engine hands the one cached QAEngine to every session. The index
\* directory holds both files, the index file alone, or none.
InitThreads ==
    /\ \E n \in 0..2 :
         /\ faissFile = IF n >= 1 THEN File(<<Embed(1)>>) ELSE NoFile
         /\ chunksFile = IF n = 2 THEN File(<<[text |-> 1, chunk_index |-> 0]>>)
                                  ELSE NoFile
    /\ wpc = "idle" /\ wop = "none" /\ wl = NoLocals /\ rpc = "idle"
    /\ eng = EngineNew
    /\ ask = AskUnused /\ srch = SrchUnused /\ fn = FnUnused
    /\ thr = ThrIdle /\ ing = IngUnused

Goto(t, pc) == [thr EXCEPT !.pc[t] = pc]

\* The field is assigned the object thread t has loaded.
Assign(t, r, data, pc) ==
    /\ eng' = [eng EXCEPT ![r] = Loaded(data)]
    /\ thr' = [thr EXCEPT !.pc[t] = pc, !.loads[r] = @ + 1]

\* A session calls search (directly or through ask / ask_detailed), which
\* calls _load.
ThreadCall ==
    /\ \E t \in Threads :
         /\ thr.pc[t] = "idle"
         /\ thr' = Goto(t, "check_model")
    /\ UNCHANGED <<ixvars, ask, srch, fn, ing>>

\* if self._model is None:
CheckModel ==
    /\ \E t \in Threads :
         /\ thr.pc[t] = "check_model"
         /\ thr' = Goto(t, IF eng._model.set THEN "check_reranker" ELSE "load_model")
    /\ UNCHANGED <<ixvars, ask, srch, fn, ing>>

\* self._model = SentenceTransformer(EMBEDDING_MODEL)
LoadModel ==
    /\ \E t \in Threads :
         /\ thr.pc[t] = "load_model"
         /\ Assign(t, "_model", <<t>>, "check_reranker")
    /\ UNCHANGED <<faissFile, chunksFile, wpc, wop, wl, rpc, ask, srch, fn, ing>>

\* if self._reranker is None:
CheckReranker ==
    /\ \E t \in Threads :
         /\ thr.pc[t] = "check_reranker"
         /\ thr' = Goto(t, IF eng._reranker.set THEN "check_index" ELSE "load_reranker")
    /\ UNCHANGED <<ixvars, ask, srch, fn, ing>>

\* self._reranker = CrossEncoder(RERANKER_MODEL)
LoadReranker ==
    /\ \E t \in Threads :
         /\ thr.pc[t] = "load_reranker"
         /\ Assign(t, "_reranker", <<t>>, "check_index")
    /\ UNCHANGED <<faissFile, chunksFile, wpc, wop, wl, rpc, ask, srch, fn, ing>>

\* if self._index is None: otherwise _load returns and search goes on.
CheckIndex ==
    /\ \E t \in Threads :
         /\ thr.pc[t] = "check_index"
         /\ thr' = Goto(t, IF eng._index.set THEN "search" ELSE "read_index")
    /\ UNCHANGED <<ixvars, ask, srch, fn, ing>>

\* self._index = faiss.read_index(...); a missing file raises and ends the
\* call.
ReadIndex ==
    /\ \E t \in Threads :
         /\ thr.pc[t] = "read_index"
         /\ IF faissFile.exists
              THEN Assign(t, "_index", faissFile.data, "read_chunks")
              ELSE thr' = Goto(t, "idle") /\ eng' = eng
    /\ UNCHANGED <<faissFile, chunksFile, wpc, wop, wl, rpc, ask, srch, fn, ing>>

\* self._chunks = pickle.load(f); a missing file raises and ends the call.
ReadChunks ==
    /\ \E t \in Threads :
         /\ thr.pc[t] = "read_chunks"
         /\ IF chunksFile.exists
              THEN Assign(t, "_chunks", chunksFile.data, "search")
              ELSE thr' = Goto(t, "idle") /\ eng' = eng
    /\ UNCHANGED <<faissFile, chunksFile, wpc, wop, wl, rpc, ask, srch, fn, ing>>

\* search past _load: it reads self._index and self._chunks, and returns or
\* raises.
ThreadSearch ==
    /\ \E t \in Threads :
         /\ thr.pc[t] = "search"
         /\ thr' = Goto(t, "idle")
    /\ UNCHANGED <<ixvars, ask, srch, fn, ing>>

NextThreads ==
    \/ ThreadCall \/ CheckModel \/ LoadModel \/ CheckReranker \/ LoadReranker
    \/ CheckIndex \/ ReadIndex \/ ReadChunks \/ ThreadSearch

SpecThreads == InitThreads /\ [][NextThreads]_vars

\* C25: on one QAEngine the embedding model, the re-ranker, the index and
\* the chunk sequence are each loaded at most once over all calls, and a call
\* that is past the two model checks finds both models loaded.
C25_InitialisedOnce ==
    /\ \A r \in Resources : thr.loads[r] <= 1
    /\ \A t \in Threads :
         thr.pc[t] \in {"check_index", "read_index", "read_chunks", "search"}
           => eng._model.set /\ eng._reranker.set

\* C28: whenever a search call is past _load, the chunk sequence is loaded;
\* no call reads self._chunks while it is None and self._index is set.
C28_ChunksLoadedPastLoad ==
    \A t \in Threads :
        thr.pc[t] = "search" => ~(eng._index.set /\ ~eng._chunks.set)

\* ---------------------------------------------------------------------------
\* Part VI. Ingestion: clean_text of the parser, and the passage ids and
\* persisted files of parser.run and update.run.
\* ---------------------------------------------------------------------------

MaxClean == 6

CleanChars == {"a", " ", "\t", "\n"}

IsBlank(c) == c \in {" ", "\t"}

RECURSIVE DropWhileBlank(_)
DropWhileBlank(text) ==
    IF text # <<>> /\ IsBlank(Head(text)) THEN DropWhileBlank(Tail(text))
    ELSE text

\* re.sub(r"[ \t]+", " ", text): every maximal run of spaces and tabs becomes
\* one space.
RECURSIVE CollapseBlanks(_)
CollapseBlanks(text) ==
    IF text = <<>> THEN <<>>
    ELSE IF IsBlank(Head(text))
         THEN <<" ">> \o CollapseBlanks(DropWhileBlank(text))
         ELSE <<Head(text)>> \o CollapseBlanks(Tail(text))

RECURSIVE NewlineRun(_)
NewlineRun(text) ==
    IF text # <<>> /\ Head(text) = "\n" THEN 1 + NewlineRun(Tail(text)) ELSE 0

\* re.sub(r"\n{3,}", "\n\n", text): every maximal run of three or more
\* newlines becomes two; shorter runs stay.
RECURSIVE CollapseNewlines(_)
CollapseNewlines(text) ==
    IF text = <<>> THEN <<>>
    ELSE LET n == NewlineRun(text) IN
         IF n = 0 THEN <<Head(text)>> \o CollapseNewlines(Tail(text))
         ELSE [i \in 1..(IF n >= 3 THEN 2 ELSE n) |-> "\n"]
                \o CollapseNewlines(SubSeq(text, n + 1, Len(text)))

\* "\n".join(lines)
RECURSIVE JoinLines(_)
JoinLines(lines) ==
    IF lines = <<>> THEN <<>>
    ELSE IF Len(lines) = 1 THEN lines[1]
    ELSE lines[1] \o <<"\n">> \o JoinLines(Tail(lines))

\* clean_text: blanks collapsed, then newline runs collapsed, then every line
\* stripped, then the whole text stripped, in that order.
CleanText(text) ==
    LET t1    == CollapseBlanks(text)
        t2    == CollapseNewlines(t1)
        split == SplitLines(t2, <<>>)
        lines == [i \in 1..Len(split) |-> Strip(split[i])]
    IN  Strip(JoinLines(lines))

CleanTextCall ==
    /\ fn.pc = "idle"
    /\ \E text \in SeqsUpTo(CleanChars, MaxClean) :
         LET result == CleanText(text) IN
         fn' = [pc |-> "done", name |-> "clean_text", text |-> text,
                result |-> result, again |-> CleanText(result)]
    /\ UNCHANGED <<ixvars, ask, srch, thr, ing>>

NextClean == CleanTextCall \/ FnReturn

SpecClean == InitFn /\ [][NextClean]_vars

CleanDone == fn.pc = "done" /\ fn.name = "clean_text"

\* C27: the result of clean_text has no three consecutive newlines, no tab,
\* no two consecutive spaces, no line with leading or trailing whitespace,
\* and cleaning the result again leaves it unchanged.
C27_CleanTextNormalised ==
    CleanDone =>
      LET r     == fn.result
          lines == SplitLines(r, <<>>)
      IN  /\ \A i \in 1..Len(r) :
               ~(At(r, i) = "\n" /\ At(r, i + 1) = "\n" /\ At(r, i + 2) = "\n")
          /\ \A i \in 1..Len(r) : r[i] # "\t"
          /\ \A i \in 1..Len(r) : ~(At(r, i) = " " /\ At(r, i + 1) = " ")
          /\ \A k \in 1..Len(lines) : Strip(lines[k]) = lines[k]
          /\ fn.again = r

\* ---------------------------------------------------------------------------
\* Part VII. ask with its context: the ranked chunks carry their text
\* lengths, build_context selects the units of the prompt, and the sources
\* are taken from the numbers the generator reports.
\* ---------------------------------------------------------------------------

\* Lengths of the chunk texts of a question: an ordinary chunk, half the
\* budget, nearly the whole budget.
AskTextLens == {1495, 4995, 9895}

\* Ranked chunks as search returns them, with the length of their text.
RankedTexts ==
    UNION {{[i \in 1..k |-> [bron_url |-> u[i], titel |-> i, sectie |-> "s",
                            text_len |-> l[i]]] :
               u \in [1..k -> Urls], l \in [1..k -> AskTextLens]} :
           k \in 0..MaxCtxChunks}

\* What the generation call does here: a text that ends with a marker line,
\* a text without one, or an exception.
ContextGenerations ==
    {[raises |-> FALSE, content |-> MarkedAnswer(<<"a">>, ns, TRUE, FALSE, <<>>),
      e |-> <<>>, body |-> <<"a">>, cited |-> ns] : ns \in NumLists}
    \cup {[raises |-> FALSE, content |-> <<"a">>, e |-> <<>>, body |-> <<>>,
           cited |-> <<>>]}
    \cup {[raises |-> TRUE, content |-> <<>>, e |-> <<"a">>, body |-> <<>>,
           cited |-> <<>>]}

\* The chunk as _get_sources_by_indices reads it.
Ranked(chunk) ==
    [bron_url |-> chunk.bron_url, titel |-> chunk.titel, sectie |-> chunk.sectie]

\* QAEngine.ask from build_context on: the context is built from the ranked
\* chunks, the generator answers, and the sources are looked up in the whole
\* ranked list.
AskInContext ==
    /\ ask.pc = "idle"
    /\ \E chunks \in RankedTexts, gen \in ContextGenerations :
         LET context == BuildContext([i \in 1..Len(chunks) |-> chunks[i].text_len])
             ranked  == [i \in 1..Len(chunks) |-> Ranked(chunks[i])]
         IN  ask' = [pc |-> "done", gen |-> gen, chunks |-> chunks,
                     context |-> context, result |-> AskResult(ranked, gen)]
    /\ UNCHANGED <<ixvars, srch, fn, thr, ing>>

NextAskContext == AskInContext \/ AskReturn

SpecAskContext == InitAsk /\ [][NextAskContext]_vars

\* The URLs of the chunks that have a unit, whole or truncated, in the
\* context.
UrlsInContext ==
    {ask.chunks[ask.context[k].i].bron_url : k \in 1..Len(ask.context)}

\* C29: every source ask returns carries the URL of a chunk whose text is in
\* the context sent to the generator, whatever numbers the generator reports.
C29_SourcesFromContext ==
    ask.pc = "done" =>
      \A k \in 1..Len(ask.result.sources) :
          ask.result.sources[k].url \in UrlsInContext

\* ---------------------------------------------------------------------------
\* Part VIII. The ingestion scripts parser.run and update.run: the site, the
\* files data/metadata.json, data/passages.json, index/faiss.index and
\* index/chunks.pkl, and the position and locals of a running update.
\* ---------------------------------------------------------------------------

MaxItemPassages == 2   \* passages the raw files of one item parse into

SiteUrls == {"a", "b"}

PassageTexts == {"x", "y"}

\* The toolkit site: the order in which its items are discovered, and for
\* every URL the passages its raw files parse into (after strip_footer and
\* the boilerplate filter; a text is kept by its whitespace-normalised form).
Sites ==
    {[order |-> o, parse |-> p] :
        o \in {<<"a">>, <<"a", "b">>},
        p \in [SiteUrls -> SeqsUpTo(PassageTexts, MaxItemPassages)]}

Range(s) == {s[i] : i \in 1..Len(s)}

\* find_new_items: the discovered items whose URL is not in the metadata
FindNewItems(order, existing_metadata) ==
    LET IsNew(u) == u \notin Range(existing_metadata)
    IN  SelectSeq(order, IsNew)

\* The passages of one item with the item's metadata added.
ItemPassages(site, url) ==
    [i \in 1..Len(site.parse[url]) |-> [bron_url |-> url, text |-> site.parse[url][i]]]

\* The deduplication loop: a passage is kept when its normalised text was not
\* seen before.
RECURSIVE Dedupe(_, _)
Dedupe(passages, seen_texts) ==
    IF passages = <<>> THEN <<>>
    ELSE LET p == Head(passages) IN
         IF p.text \notin seen_texts
           THEN <<p>> \o Dedupe(Tail(passages), seen_texts \cup {p.text})
           ELSE Dedupe(Tail(passages), seen_texts)

\* passage["id"] = first + i for i, passage in enumerate(passages)
Number(passages, first) ==
    [i \in 1..Len(passages) |->
        [id |-> first + i - 1, bron_url |-> passages[i].bron_url,
         text |-> passages[i].text]]

\* parse_new_items: every new item is parsed and deduplicated on its own; the
\* ids continue from next_passage_id.
ParseNewItems(site, new_metadata, next_passage_id) ==
    Number(Flatten([k \in 1..Len(new_metadata) |->
                       Dedupe(ItemPassages(site, new_metadata[k]), {})]),
           next_passage_id)

\* The passages parser.run writes: all items of the metadata are parsed, the
\* passages are deduplicated over all items, and the ids start at 0.
ParseAll(site, metadata) ==
    Number(Dedupe(Flatten([k \in 1..Len(metadata) |->
                              ItemPassages(site, metadata[k])]), {}),
           0)

\* max((p["id"] for p in existing_passages), default=-1) + 1
NextId(existing_passages) ==
    IF existing_passages = <<>> THEN 0
    ELSE (CHOOSE m \in {existing_passages[i].id : i \in 1..Len(existing_passages)} :
             \A i \in 1..Len(existing_passages) : existing_passages[i].id <= m) + 1

\* The chunk of a passage: the texts are short, so split_into_chunks returns
\* the text as its only chunk.
ChunkOf(passage) ==
    [text |-> passage.text, bron_url |-> passage.bron_url,
     passage_id |-> passage.id, chunk_index |-> 0]

ChunksOf(passages) == [i \in 1..Len(passages) |-> ChunkOf(passages[i])]

\* The ids that were written to passages.json, each with its passage.
Written(passages) ==
    {[id |-> passages[i].id,
      passage |-> [bron_url |-> passages[i].bron_url, text |-> passages[i].text]] :
        i \in 1..Len(passages)}

NoIngLocals == [existing_metadata |-> <<>>, existing_passages |-> <<>>,
                new_metadata |-> <<>>, new_passages |-> <<>>,
                index |-> <<>>, all_chunks |-> <<>>]

\* A fresh installation: no file exists yet.
IngStart(site) ==
    [site |-> site, pc |-> "idle", l |-> NoIngLocals,
     metadataFile |-> NoFile, passagesFile |-> NoFile,
     faissFile |-> NoFile, chunksFile |-> NoFile,
     assigned |-> {}, discovered |-> {}, completed |-> TRUE]

InitIngest ==
    /\ InitIndex
    /\ ask = AskUnused /\ srch = SrchUnused /\ fn = FnUnused /\ thr = ThrUnused
    /\ \E site \in Sites : ing = IngStart(site)

\* update.run returns: the script is idle again and ran to its end.
RunReturns == [ing EXCEPT !.pc = "idle", !.l = NoIngLocals, !.completed = TRUE]

\* update.run up to the first write: the existing files are loaded, the site
\* is scanned, the new items are selected and downloaded; an item whose page
\* cannot be fetched is skipped.
RunLoadAndDownload ==
    /\ ing.pc = "idle"
    /\ LET existing_metadata == ing.metadataFile.data
           existing_passages == ing.passagesFile.data
           new_items == FindNewItems(ing.site.order, existing_metadata)
       IN  IF new_items = <<>>
             THEN ing' = RunReturns
             ELSE \E fetched \in SUBSET Range(new_items) :
                    LET Ok(u) == u \in fetched
                        new_metadata == SelectSeq(new_items, Ok)
                    IN  IF new_metadata = <<>>
                          THEN ing' = RunReturns
                          ELSE ing' = [ing EXCEPT
                                 !.pc = "write_metadata",
                                 !.completed = FALSE,
                                 !.l = [NoIngLocals EXCEPT
                                          !.existing_metadata = existing_metadata,
                                          !.existing_passages = existing_passages,
                                          !.new_metadata = new_metadata]]
    /\ UNCHANGED <<ixvars, ask, srch, fn, thr>>

\* existing_metadata.extend(new_metadata); json.dump to metadata.json
RunWriteMetadata ==
    /\ ing.pc = "write_metadata"
    /\ ing' = [ing EXCEPT
                 !.pc = "parse",
                 !.metadataFile = File(ing.l.existing_metadata \o ing.l.new_metadata),
                 !.discovered = @ \cup Range(ing.l.new_metadata)]
    /\ UNCHANGED <<ixvars, ask, srch, fn, thr>>

\* next_id and parse_new_items; without new passages update.run returns.
RunParse ==
    /\ ing.pc = "parse"
    /\ LET next_id == NextId(ing.l.existing_passages)
           new_passages == ParseNewItems(ing.site, ing.l.new_metadata, next_id)
       IN  IF new_passages = <<>>
             THEN ing' = RunReturns
             ELSE ing' = [ing EXCEPT !.pc = "write_passages",
                                     !.l.new_passages = new_passages]
    /\ UNCHANGED <<ixvars, ask, srch, fn, thr>>

\* existing_passages.extend(new_passages); json.dump to passages.json
RunWritePassages ==
    /\ ing.pc = "write_passages"
    /\ LET all_passages == ing.l.existing_passages \o ing.l.new_passages
       IN  ing' = [ing EXCEPT !.pc = "index",
                              !.passagesFile = File(all_passages),
                              !.assigned = @ \cup Written(all_passages)]
    /\ UNCHANGED <<ixvars, ask, srch, fn, thr>>

\* index_new_passages up to its first write: the chunks and their vectors
\* are made and added to the existing index, or to a new one when one of the
\* two index files is missing.
RunIndexLoad ==
    /\ ing.pc = "index"
    /\ LET new_chunks == ChunksOf(ing.l.new_passages)
           both == ing.faissFile.exists /\ ing.chunksFile.exists
       IN  ing' = [ing EXCEPT
                     !.pc = "write_index",
                     !.l.index = (IF both THEN ing.faissFile.data ELSE <<>>)
                                   \o Encode(new_chunks),
                     !.l.all_chunks = (IF both THEN ing.chunksFile.data ELSE <<>>)
                                        \o new_chunks]
    /\ UNCHANGED <<ixvars, ask, srch, fn, thr>>

\* faiss.write_index(index, FAISS_INDEX_FILE)
RunWriteIndex ==
    /\ ing.pc = "write_index"
    /\ ing' = [ing EXCEPT !.pc = "write_chunks", !.faissFile = File(ing.l.index)]
    /\ UNCHANGED <<ixvars, ask, srch, fn, thr>>

\* pickle.dump(all_chunks, f); update.run returns.
RunWriteChunks ==
    /\ ing.pc = "write_chunks"
    /\ ing' = [RunReturns EXCEPT !.chunksFile = File(ing.l.all_chunks)]
    /\ UNCHANGED <<ixvars, ask, srch, fn, thr>>

\* The update is interrupted between two of its steps: the files stay as
\* they are and the locals are lost.
RunInterrupt ==
    /\ ing.pc \notin {"idle", "unused"}
    /\ ing' = [ing EXCEPT !.pc = "idle", !.l = NoIngLocals]
    /\ UNCHANGED <<ixvars, ask, srch, fn, thr>>

\* parser.run: a full parse of everything the metadata lists.
ParserRun ==
    /\ ing.pc = "idle"
    /\ ing.metadataFile.exists
    /\ LET all_passages == ParseAll(ing.site, ing.metadataFile.data)
       IN  ing' = [ing EXCEPT !.passagesFile = File(all_passages),
                              !.assigned = @ \cup Written(all_passages)]
    /\ UNCHANGED <<ixvars, ask, srch, fn, thr>>

NextUpdateRun ==
    \/ RunLoadAndDownload \/ RunWriteMetadata \/ RunParse \/ RunWritePassages
    \/ RunIndexLoad \/ RunWriteIndex \/ RunWriteChunks

\* Full parses and complete incremental updates, in any order.
NextIngest == NextUpdateRun \/ ParserRun

SpecIngest == InitIngest /\ [][NextIngest]_vars

\* Incremental updates that may be interrupted and are run again.
NextRetry == NextUpdateRun \/ RunInterrupt

SpecRetry == InitIngest /\ [][NextRetry]_vars

\* No id was written for two different passages.
NeverReused ==
    \A p \in ing.assigned, q \in ing.assigned : p.id = q.id => p.passage = q.passage

\* A passage that gets its first id gets one above every id written before.
AboveEarlier ==
    \A p \in ing'.assigned \ ing.assigned :
        (\A q \in ing.assigned : q.passage # p.passage)
          => \A q \in ing.assigned : p.id > q.id

\* C26: over any sequence of full parses and incremental updates no id is
\* given to two different passages, and every newly ingested passage gets an
\* id above all ids given before.
C26_IdsMonotoneNeverReused == []NeverReused /\ [][AboveEarlier]_vars

\* The number of elements of a sequence that satisfy a test.
CountIn(s, Test(_)) == Cardinality({i \in 1..Len(s) : Test(s[i])})

\* The passage texts of an item that an update indexes.
IndexedTexts(url) == {p.text : p \in Range(ItemPassages(ing.site, url))}

\* C30: once an update has run to its end after any interruptions, with the
\* site unchanged, every passage of every item an update recorded in
\* metadata.json has exactly one chunk and one vector in the index files.
C30_RetrySafe ==
    (ing.pc = "idle" /\ ing.completed) =>
      \A url \in ing.discovered : \A text \in IndexedTexts(url) :
          LET IsChunk(c) == c.bron_url = url /\ c.text = text IN
          /\ CountIn(ing.chunksFile.data, IsChunk) = 1
          /\ Len(ing.faissFile.data) = Len(ing.chunksFile.data)

====
